---- MODULE Spec2Model ----
(***************************************************************************)
(* A model of src/src/indexer.ts: the file selector readFilesRecursively,  *)
(* the index provisioner initializePineconeIndex and the ingestion driver  *)
(* indexFiles.  Each function has its own specification; the variables of  *)
(* the other two stay at their idle values.  The collaborators (the file   *)
(* system, the embedding provider, the vector store) answer every call     *)
(* with any outcome they can give.                                         *)
(***************************************************************************)
EXTENDS Integers, Sequences, FiniteSets, TLC

VARIABLES
  \* ---- indexFiles ----
  files,            \* the argument  files: string[]
  dryrunMode,       \* the argument  dryrunMode: boolean
  pc,               \* position of the invocation of indexFiles
  pos,              \* the for..of position in files (1-based)
  successfulCount,  \* let successfulCount
  content,          \* const content of the file being processed
  embedding,        \* const embedding of the file being processed
  summary,          \* what the final console.log reports
  disk,             \* the file system: path -> content or NoFile
  remoteIndex,      \* the records of the index, by id
  before,           \* remoteIndex when the current invocation started
  log,              \* the collaborator calls of the current invocation
  runs,             \* invocations of indexFiles started so far
  prev,             \* the previous invocation: its files and its outcome
  \* ---- initializePineconeIndex ----
  indexName,        \* the argument  indexName: string
  ipc,              \* position of the invocation of initializePineconeIndex
  existingIndexes,  \* const existingIndexes (may be undefined)
  indexNames,       \* const indexNames (may be undefined)
  isReady,          \* let isReady
  indexes,          \* the indexes of the vector store, by name
  atStart,          \* indexes when the current invocation started
  calls,            \* the remote calls and delays of the current invocation
  creates,          \* create-index requests issued so far, by name
  returned,         \* invocations that returned normally so far, by name
  failedOn,         \* the names some invocation so far has thrown on
  invocations,      \* invocations of initializePineconeIndex started so far
  \* ---- readFilesRecursively ----
  tree,             \* the directory entries below the root: parent, name, kind
  failing,          \* the directories whose fs.readdir fails (0 is the root)
  rpc,              \* position of the invocation of readFilesRecursively
  output,           \* the list the invocation resolved with
  listed,           \* the directories fs.readdir was called on
  inflight,         \* the directories whose fs.readdir has not settled yet
  completed,        \* the directories whose fs.readdir settled, in that order
  error,            \* the error the invocation rejected with, if any
  \* ---- the network ----
  inFlight          \* the remote calls issued and not yet settled

idxVars == <<files, dryrunMode, pc, pos, successfulCount, content, embedding,
             summary, disk, remoteIndex, before, log, runs, prev>>

provVars == <<indexName, ipc, existingIndexes, indexNames, isReady, indexes, atStart, calls,
              creates, returned, failedOn, invocations>>

selVars == <<tree, failing, rpc, output, listed, inflight, completed, error>>

\* an action of one function leaves the state of the other functions alone
IndexFilesOnly == UNCHANGED <<provVars, selVars>>
InitializeOnly == UNCHANGED <<idxVars, selVars>>
ReadFilesOnly == UNCHANGED <<idxVars, provVars, inFlight>>

----------------------------------------------------------------------------
(* Bounds of the indexFiles model *)

MaxFiles == 2
MaxRuns == 2

Paths == {"f1", "f2"}
Contents == {"c1", "c2"}
Vectors == {"v1", "v2"}

NoFile == "NoFile"
None == "None"
NoEntries == [id \in {} |-> None]

\* the file systems: a file is missing or holds its content.  indexFiles
\* treats every content alike, so each file has one content of its own.
ContentOf(p) == IF p = "f1" THEN "c1" ELSE "c2"
Disks ==
  {d \in [Paths -> Contents \cup {NoFile}] :
     \A p \in Paths : d[p] \in {ContentOf(p), NoFile}}

FileLists == UNION {[1..n -> Paths] : n \in 0..MaxFiles}

----------------------------------------------------------------------------
(* indexFiles *)

\* a remote call is issued; its promise settles
Issue(calls_, op, at) == Append(calls_, [op |-> op, at |-> at])
Settle(calls_, op, at) ==
  SelectSeq(calls_, LAMBDA c : ~(c.op = op /\ c.at = at))

\* how an invocation ended: not at all, by throwing, as a dry run, with
\* every file counted, or with some file failed
Outcome ==
  IF pc = "thrown" THEN "thrown"
  ELSE IF pc # "done" THEN "none"
  ELSE IF dryrunMode THEN "dry"
  ELSE IF successfulCount = Len(files) THEN "clean"
  ELSE "partial"

\* a text that also carries the number of the run that built it
ContentWithRun(file, c) == <<"File path: ", file, "\n\n", c, ToString(runs)>>

\* `File path: ${file}\n\n${content}`
ContentWithFilePath(file, c) == <<"File path: ", file, "\n\n", c>>

\* a record whose text is the content alone
IndexEntryBareText(file, values, c) ==
  [id |-> file, values |-> values,
   metadata |-> [path |-> file, text |-> <<c>>]]

\* the single record handed to index.upsert
IndexEntry(file, values, c) ==
  [id |-> file, values |-> values,
   metadata |-> [path |-> file, text |-> ContentWithFilePath(file, c)]]

\* index.upsert(records): insert or replace by id
UpsertInto(idx, records) ==
  [id \in DOMAIN idx \cup {records[j].id : j \in 1..Len(records)} |->
     IF \E j \in 1..Len(records) : records[j].id = id
     THEN LET last == CHOOSE j \in 1..Len(records) :
                        /\ records[j].id = id
                        /\ \A m \in (j+1)..Len(records) : records[m].id # id
          IN  records[last]
     ELSE idx[id]]

Logged(op, ok, arg) ==
  log' = Append(log, [op |-> op, at |-> pos, file |-> files[pos], ok |-> ok, arg |-> arg])

\* a catch block that leaves the loop
CatchBreak ==
  /\ pos' = Len(files) + 1
  /\ pc' = "loop"
  /\ UNCHANGED successfulCount

\* a catch block that tries the same file again
CatchRetry ==
  /\ pc' = "loop"
  /\ UNCHANGED <<successfulCount, pos>>

\* successfulCount++ placed after the try statement instead of inside it
CatchCounted ==
  /\ pos' = pos + 1
  /\ pc' = "loop"
  /\ successfulCount' = successfulCount + 1

\* catch (error) { console.error(...) } and on to the next file
Catch ==
  /\ pos' = pos + 1
  /\ pc' = "loop"
  /\ UNCHANGED successfulCount

\* successfulCount++ at the end of the try block, then the next iteration
FileDone ==
  /\ successfulCount' = successfulCount + 1
  /\ pos' = pos + 1
  /\ pc' = "loop"

\* the branch on dryrunMode taken the wrong way round
AfterReadNoDryRun(c) ==
  /\ content' = c
  /\ pc' = "embed"
  /\ inFlight' = Issue(inFlight, "embed", pos)
  /\ UNCHANGED <<successfulCount, pos>>

\* a loop that skips the files the index already holds an entry for
AfterReadSkipKnown(c) ==
  /\ content' = c
  /\ IF dryrunMode \/ files[pos] \in DOMAIN remoteIndex
     THEN FileDone /\ UNCHANGED inFlight
     ELSE /\ pc' = "embed"
          /\ inFlight' = Issue(inFlight, "embed", pos)
          /\ UNCHANGED <<successfulCount, pos>>

\* after a successful read: if (dryrunMode) log and count, else go on to embed
AfterRead(c) ==
  /\ content' = c
  /\ IF dryrunMode
     THEN FileDone /\ UNCHANGED inFlight
     ELSE /\ pc' = "embed"
          /\ inFlight' = Issue(inFlight, "embed", pos)
          /\ UNCHANGED <<successfulCount, pos>>

\* an upsert that is started and not awaited
AfterEmbedNoAwait(r) ==
  IF r \in Vectors
  THEN /\ embedding' = r
       /\ inFlight' = Issue(Settle(inFlight, "embed", pos), "upsert", pos)
       /\ FileDone
  ELSE /\ Catch
       /\ embedding' = None
       /\ inFlight' = Settle(inFlight, "embed", pos)

\* an upsert that is issued whatever the embedding call answered
AfterEmbedUnchecked(r) ==
  /\ embedding' = r
  /\ pc' = "upsert"
  /\ inFlight' = Issue(Settle(inFlight, "embed", pos), "upsert", pos)
  /\ UNCHANGED <<successfulCount, pos>>

\* after the embedding call settled with r: embedding.data[0].embedding is
\* read and index.upsert is called, or the catch block runs
AfterEmbed(r) ==
  IF r \in Vectors
  THEN /\ embedding' = r
       /\ pc' = "upsert"
       /\ inFlight' = Issue(Settle(inFlight, "embed", pos), "upsert", pos)
       /\ UNCHANGED <<successfulCount, pos>>
  ELSE /\ Catch
       /\ embedding' = None
       /\ inFlight' = Settle(inFlight, "embed", pos)

\* a caller invokes indexFiles(files, indexName, {indexer, embedder, dryrunMode})
Invoke ==
  /\ pc \in {"idle", "done", "thrown"}
  /\ runs < MaxRuns
  /\ runs' = runs + 1
  /\ \E fs \in FileLists : files' = fs
  /\ \E d \in BOOLEAN : dryrunMode' = d
  /\ pc' = "index"
  /\ pos' = 1
  /\ successfulCount' = 0
  /\ content' = None
  /\ embedding' = None
  /\ summary' = None
  /\ before' = remoteIndex
  /\ log' = <<>>
  /\ prev' = [files |-> {files[i] : i \in 1..Len(files)}, outcome |-> Outcome]
  /\ UNCHANGED <<disk, remoteIndex, inFlight>>
  /\ IndexFilesOnly

\* const index = pc.index(indexName); let successfulCount = 0
GetIndex ==
  /\ pc = "index"
  /\ \E ok \in BOOLEAN :
       pc' = IF ok THEN "loop" ELSE "thrown"
  /\ successfulCount' = 0
  /\ UNCHANGED <<files, dryrunMode, pos, content, embedding, summary, disk,
                 remoteIndex, before, log, runs, prev, inFlight>>
  /\ IndexFilesOnly

\* await fs.readFile(file, 'utf8') and what follows up to the next await
ReadFile ==
  /\ pc = "loop"
  /\ pos <= Len(files)
  /\ \E ok \in BOOLEAN :
       /\ ok => disk[files[pos]] # NoFile
       /\ Logged("read", ok, IF ok THEN disk[files[pos]] ELSE None)
       /\ IF ok
          THEN AfterRead(disk[files[pos]])
          ELSE Catch /\ content' = None /\ UNCHANGED inFlight
  /\ embedding' = None
  /\ UNCHANGED <<files, dryrunMode, summary, disk, remoteIndex, before, runs,
                 prev>>
  /\ IndexFilesOnly

\* await openai.embeddings.create(...), then embedding.data[0].embedding
Embed ==
  /\ pc = "embed"
  /\ \E r \in {"error", "nodata"} \cup Vectors :
       /\ Logged("embed", r # "error",
                 [input |-> ContentWithFilePath(files[pos], content),
                  output |-> r])
       /\ AfterEmbed(r)
  /\ UNCHANGED <<files, dryrunMode, content, summary, disk, remoteIndex,
                 before, runs, prev>>
  /\ IndexFilesOnly

\* await index.upsert([{id, values, metadata}]), console.log, successfulCount++
Upsert ==
  /\ pc = "upsert"
  /\ LET records == <<IndexEntry(files[pos], embedding, content)>> IN
     \E ok \in BOOLEAN :
       /\ Logged("upsert", ok, records)
       /\ IF ok
          THEN /\ remoteIndex' = UpsertInto(remoteIndex, records)
               /\ FileDone
          ELSE /\ UNCHANGED remoteIndex
               /\ Catch
  /\ inFlight' = Settle(inFlight, "upsert", pos)
  /\ UNCHANGED <<files, dryrunMode, content, embedding, summary, disk,
                 before, runs, prev>>
  /\ IndexFilesOnly

\* the console.log after the loop, and the normal return
Summary ==
  /\ pc = "loop"
  /\ pos > Len(files)
  /\ summary' = [successfulCount |-> successfulCount, total |-> Len(files),
                 dryRun |-> dryrunMode]
  /\ pc' = "done"
  /\ UNCHANGED <<files, dryrunMode, pos, successfulCount, content, embedding,
                 disk, remoteIndex, before, log, runs, prev, inFlight>>
  /\ IndexFilesOnly

----------------------------------------------------------------------------
(* initializePineconeIndex *)

MaxInvocations == 3
MaxPolls == 2

IndexNames == {"idx", "other"}

\* dimension: 1536 of the create request
Dimension == 1536

NoIndexes == [n \in {} |-> None]

\* the indexes field of the listIndexes response: undefined, or the index
\* models (name, status, dimension) of the store
NoList == [defined |-> FALSE, models |-> NoIndexes]
IndexList(models) == [defined |-> TRUE, models |-> models]

\* existingIndexes?.map((index) => index.name): undefined, or the names
Undefined == [defined |-> FALSE, names |-> {}]
MapNames(list) ==
  IF list.defined
  THEN [defined |-> TRUE, names |-> DOMAIN list.models]
  ELSE Undefined

\* a retry of the failed step in place of the rethrow
Retry ==
  /\ ipc' = ipc
  /\ UNCHANGED <<returned, failedOn>>

Called(op, result) ==
  calls' = Append(calls, [op |-> op, name |-> indexName, result |-> result])

Delays == Len(SelectSeq(calls, LAMBDA c : c.op = "delay"))

\* a condition without the test for a response that holds no list
NeedsCreateIfListed(names) == names.defined /\ indexName \notin names.names

\* a condition that asks for the index to be created whatever the listing says
NeedsCreateAlways(names) == TRUE

\* if (!indexNames || !indexNames.includes(indexName))
NeedsCreate(names) == ~names.defined \/ indexName \notin names.names

\* a catch block that logs the error and returns normally
Swallow ==
  /\ ipc' = "returned"
  /\ returned' = [returned EXCEPT ![indexName] = @ + 1]
  /\ UNCHANGED failedOn

\* catch (error) { console.error(...); throw error }
Throw ==
  /\ ipc' = "thrown"
  /\ failedOn' = failedOn \cup {indexName}
  /\ UNCHANGED returned

\* a loop that stops after its first describe call, ready or not
AfterDescribeOnce(ready) ==
  /\ isReady' = ready
  /\ ipc' = "returned"
  /\ returned' = [returned EXCEPT ![indexName] = @ + 1]
  /\ UNCHANGED failedOn

\* if (indexDescription.status.ready === true) isReady = true, and the loop
\* ends; else console.log and the 2 second delay
AfterDescribe(ready) ==
  /\ isReady' = ready
  /\ IF ready
     THEN /\ ipc' = "returned"
          /\ returned' = [returned EXCEPT ![indexName] = @ + 1]
     ELSE /\ ipc' = "delay"
          /\ UNCHANGED returned
  /\ UNCHANGED failedOn

\* a caller invokes initializePineconeIndex(indexName, {indexer})
InvokeInitialize ==
  /\ ipc \in {"idle", "returned", "thrown"}
  /\ invocations < MaxInvocations
  /\ invocations' = invocations + 1
  /\ \E n \in IndexNames : indexName' = n
  /\ ipc' = "list"
  /\ existingIndexes' = NoList
  /\ indexNames' = Undefined
  /\ isReady' = FALSE
  /\ atStart' = indexes
  /\ calls' = <<>>
  /\ inFlight' = Issue(inFlight, "list", 0)
  /\ UNCHANGED <<indexes, creates, returned, failedOn>>
  /\ InitializeOnly

\* await pc.listIndexes(), the map over the names, and the test of line 73
ListIndexes ==
  /\ ipc = "list"
  /\ \/ /\ Called("list", "error")
        /\ Throw
        /\ inFlight' = Settle(inFlight, "list", 0)
        /\ UNCHANGED <<existingIndexes, indexNames>>
     \/ \E r \in {NoList, IndexList(indexes)} :
          /\ Called("list", IF r.defined THEN "ok" ELSE "nolist")
          /\ existingIndexes' = r
          /\ indexNames' = MapNames(r)
          /\ ipc' = IF NeedsCreate(MapNames(r)) THEN "create" ELSE "describe"
          /\ inFlight' = Issue(Settle(inFlight, "list", 0),
                               IF NeedsCreate(MapNames(r))
                               THEN "create" ELSE "describe", 0)
          /\ UNCHANGED <<returned, failedOn>>
  /\ UNCHANGED <<indexName, isReady, indexes, atStart, creates, invocations>>
  /\ InitializeOnly

\* await pc.createIndex({name, dimension: 1536, spec}); let isReady = false
CreateIndex ==
  /\ ipc = "create"
  /\ creates' = [creates EXCEPT ![indexName] = @ + 1]
  /\ \/ /\ Called("create", "error")
        /\ Throw
        /\ inFlight' = Settle(inFlight, "create", 0)
        /\ UNCHANGED indexes
     \/ /\ indexName \notin DOMAIN indexes
        /\ Called("create", "ok")
        /\ \E r \in BOOLEAN :
             indexes' = [n \in DOMAIN indexes \cup {indexName} |->
                           IF n = indexName
                           THEN [ready |-> r, dimension |-> Dimension]
                           ELSE indexes[n]]
        /\ ipc' = "describe"
        /\ inFlight' = Issue(Settle(inFlight, "create", 0), "describe", 0)
        /\ UNCHANGED <<returned, failedOn>>
  /\ UNCHANGED <<indexName, existingIndexes, indexNames, isReady, atStart,
                 invocations>>
  /\ InitializeOnly

\* await pc.describeIndex(indexName) and the test of status.ready
DescribeIndex ==
  /\ ipc = "describe"
  /\ \/ /\ Called("describe", "error")
        /\ Throw
        /\ UNCHANGED isReady
     \/ /\ indexName \in DOMAIN indexes
        /\ Called("describe", IF indexes[indexName].ready THEN "ready" ELSE "notready")
        /\ AfterDescribe(indexes[indexName].ready)
  /\ inFlight' = Settle(inFlight, "describe", 0)
  /\ UNCHANGED <<indexName, existingIndexes, indexNames, indexes, atStart,
                 creates, invocations>>
  /\ InitializeOnly

\* a wait that gives up once it has polled MaxPolls times
DelayDeadline ==
  /\ ipc = "delay"
  /\ IF Delays < MaxPolls
     THEN /\ Called("delay", "ok")
          /\ ipc' = "describe"
          /\ inFlight' = Issue(inFlight, "describe", 0)
          /\ UNCHANGED <<returned, failedOn>>
     ELSE /\ Called("delay", "error")
          /\ Throw
          /\ UNCHANGED inFlight
  /\ UNCHANGED <<indexName, existingIndexes, indexNames, isReady, indexes,
                 atStart, creates, invocations>>
  /\ InitializeOnly

\* await new Promise((resolve) => setTimeout(resolve, 2000))
Delay ==
  /\ ipc = "delay"
  /\ Delays < MaxPolls
  /\ Called("delay", "ok")
  /\ ipc' = "describe"
  /\ inFlight' = Issue(inFlight, "describe", 0)
  /\ UNCHANGED <<indexName, existingIndexes, indexNames, isReady, indexes,
                 atStart, creates, returned, failedOn, invocations>>
  /\ InitializeOnly

\* the vector store finishes building an index: status.ready becomes true
BecomeReady ==
  /\ \E n \in DOMAIN indexes :
       /\ ~indexes[n].ready
       /\ indexes' = [indexes EXCEPT ![n].ready = TRUE]
  /\ UNCHANGED <<indexName, ipc, existingIndexes, indexNames, isReady, atStart,
                 calls, creates, returned, failedOn, invocations, inFlight>>
  /\ InitializeOnly

NextInitialize ==
  \/ InvokeInitialize
  \/ ListIndexes
  \/ CreateIndex
  \/ DescribeIndex
  \/ Delay
  \/ BecomeReady

----------------------------------------------------------------------------
(* readFilesRecursively *)

MaxEntries == 3

\* The root directory is node 0 and the entries below it are 1..Len(tree);
\* fs.readdir lists the entries of a directory in the order of their numbers.
\* A name is the sequence of its pieces: a "." or a run of other characters.
Root == 0

EntryNames ==
  { <<"a", ".", "ts">>, <<"b", ".", "png">>, <<"node_modules">>,
    <<".", "dockerignore">> }

\* const ignoredDirs
ignoredDirs ==
  { <<"node_modules">>, <<".", "git">>, <<".", "vscode">>, <<"dist">>,
    <<"build">>, <<"coverage">>, <<"logs">>, <<"tmp">>, <<"temp">> }

\* const allowedExtensions
allowedExtensions ==
  { <<".", "ts">>, <<".", "tsx">>, <<".", "js">>, <<".", "jsx">>,
    <<".", "md">>, <<".", "tf">>, <<".", "tfvars">>, <<".", "hcl">>,
    <<".", "pkr", ".", "hcl">>, <<".", "Dockerfile">>,
    <<".", "dockerignore">>, <<".", "yml">>, <<".", "yaml">> }

\* the backwards scan of path.extname over a name without separators:
\* startDot is the place of the last ".", preDotState tells what precedes it
RECURSIVE ExtScan(_, _, _, _)
ExtScan(name, i, startDot, preDotState) ==
  IF i < 1
  THEN [startDot |-> startDot, preDotState |-> preDotState]
  ELSE IF name[i] = "."
       THEN IF startDot = -1
            THEN ExtScan(name, i - 1, i, preDotState)
            ELSE ExtScan(name, i - 1, startDot, 1)
       ELSE IF startDot # -1
            THEN ExtScan(name, i - 1, startDot, -1)
            ELSE ExtScan(name, i - 1, startDot, preDotState)

\* path.extname(entry.name): from the last "." to the end; empty when there
\* is no ".", when the name starts with its only ".", or when it is ".."
extname(name) ==
  LET r == ExtScan(name, Len(name), -1, 0) IN
  IF \/ r.startDot = -1
     \/ Len(name) = 0
     \/ r.preDotState = 0
     \/ (r.preDotState = 1 /\ r.startDot = Len(name) /\ r.startDot = 2)
  THEN <<>>
  ELSE SubSeq(name, r.startDot, Len(name))

\* path.resolve(dir, entry.name), a path being the names from the root down
resolve(dir, name) == Append(dir, name)

\* the path readFilesRecursively builds for entry i: the names from the root
RECURSIVE PathOf(_, _)
PathOf(t, i) ==
  IF t[i].parent = Root
  THEN <<t[i].name>>
  ELSE Append(PathOf(t, t[i].parent), t[i].name)

\* the entries fs.readdir(dir, {withFileTypes: true}) resolves with
Entries(t, d) == SelectSeq([i \in 1..Len(t) |-> i], LAMBDA i : t[i].parent = d)

\* a skip test that looks at the files instead of the directories
IsIgnoredFile(entry) == ~entry.isDirectory /\ entry.name \in ignoredDirs

\* if (entry.isDirectory() && ignoredDirs.has(entry.name))
IsIgnored(entry) == entry.isDirectory /\ entry.name \in ignoredDirs

\* an extension filter applied to directories as well
IsDisallowedAny(entry) == extname(entry.name) \notin allowedExtensions

\* if (!entry.isDirectory() && !allowedExtensions.has(path.extname(entry.name)))
IsDisallowed(entry) ==
  ~entry.isDirectory /\ extname(entry.name) \notin allowedExtensions

RECURSIVE Flat(_)
Flat(lists) ==
  IF lists = <<>> THEN <<>> ELSE Head(lists) \o Flat(Tail(lists))

\* the call readFilesRecursively(dir) on the snapshot t: whether it resolves,
\* the list it resolves with, and the directories it and its recursive calls
\* listed.  Promise.all rejects as soon as one of the mapped promises does.
RECURSIVE Walk(_, _, _, _)
Walk(t, bad, d, dir) ==
  IF d \in bad
  THEN [ok |-> FALSE, files |-> <<>>, listed |-> {d}]
  ELSE
    LET entries == Entries(t, d)
        One(i) ==
          LET entry == t[i]
              res == resolve(dir, entry.name)
          IN  IF IsIgnored(entry)
              THEN [ok |-> TRUE, files |-> <<>>, listed |-> {}]
              ELSE IF IsDisallowed(entry)
              THEN [ok |-> TRUE, files |-> <<>>, listed |-> {}]
              ELSE IF entry.isDirectory
              THEN Walk(t, bad, i, res)
              ELSE [ok |-> TRUE, files |-> <<res>>, listed |-> {}]
        mapped == [k \in 1..Len(entries) |-> One(entries[k])]
        allOk == \A k \in 1..Len(mapped) : mapped[k].ok
    IN  [ok |-> allOk,
         files |-> IF allOk
                   THEN Flat([k \in 1..Len(mapped) |-> mapped[k].files])
                   ELSE <<>>,
         listed |-> {d} \cup UNION {mapped[k].listed : k \in 1..Len(mapped)}]

\* a snapshot of a file system: every entry lies in the root or in a
\* directory numbered below it, and no directory holds a name twice
CanHold(t, e) ==
  /\ (e.parent # Root => t[e.parent].isDirectory)
  /\ \A j \in 1..Len(t) : t[j].parent = e.parent => t[j].name # e.name

RECURSIVE TreesOf(_)
TreesOf(n) ==
  IF n = 0
  THEN {<<>>}
  ELSE UNION { { Append(t, e) :
                   e \in { x \in [parent : 0..(n - 1), name : EntryNames,
                                   isDirectory : BOOLEAN] : CanHold(t, x) } } :
               t \in TreesOf(n - 1) }

Trees == UNION { TreesOf(n) : n \in 0..MaxEntries }

Directories(t) == {Root} \cup {i \in 1..Len(t) : t[i].isDirectory}

\* a caller invokes readFilesRecursively(rootDir); the promise settles
ReadFilesRecursively ==
  /\ rpc = "idle"
  /\ LET r == Walk(tree, failing, Root, <<>>) IN
       /\ rpc' = IF r.ok THEN "returned" ELSE "thrown"
       /\ output' = r.files
       /\ listed' = r.listed
  /\ UNCHANGED <<tree, failing, inflight, completed, error>>
  /\ ReadFilesOnly

NextReadFiles ==
  \/ ReadFilesRecursively

----------------------------------------------------------------------------
(* readFilesRecursively, one settled fs.readdir at a time *)

Range(seq) == {seq[k] : k \in 1..Len(seq)}

\* the recursive calls the map callback makes for the entries of d: one for
\* each directory that is not ignored
Recursions(t, d) ==
  {i \in Range(Entries(t, d)) : t[i].isDirectory /\ ~IsIgnored(t[i])}

\* the path readFilesRecursively is called with for directory d
DirPath(t, d) == IF d = Root THEN <<>> ELSE PathOf(t, d)

\* the files the map callback reports for the entries of d themselves
FilesIn(t, d) ==
  LET entries == Entries(t, d) IN
  Flat([k \in 1..Len(entries) |->
          IF t[entries[k]].isDirectory \/ IsDisallowed(t[entries[k]])
          THEN <<>>
          ELSE <<resolve(DirPath(t, d), t[entries[k]].name)>>])

\* a result pushed to one shared list as each listing completes
ResolutionByCompletion(t, bad, order) ==
  [ok |-> Walk(t, (Directories(t) \ Range(order)) \cup bad, Root, <<>>).ok,
   files |-> Flat([k \in 1..Len(order) |-> FilesIn(t, order[k])])]

\* what the promise of the outermost call holds once the listings in order
\* have settled: it resolves when every listing the traversal reaches has
\* succeeded, with the lists flattened in the order of the entries
Resolution(t, bad, order) ==
  LET r == Walk(t, (Directories(t) \ Range(order)) \cup bad, Root, <<>>) IN
  [ok |-> r.ok, files |-> r.files]

\* a catch block that logs the error and does not rethrow it
IgnoreRejection(d) == UNCHANGED <<rpc, error, output>>

\* catch (error) { console.error(...); throw error } in the call that listed
\* d and, through Promise.all, in every call above it
Rethrow(d) ==
  IF rpc = "pending"
  THEN /\ rpc' = "thrown"
       /\ error' = <<d>>
       /\ UNCHANGED output
  ELSE UNCHANGED <<rpc, error, output>>

\* a caller invokes readFilesRecursively(rootDir): fs.readdir(rootDir) starts
CallReadFiles ==
  /\ rpc = "idle"
  /\ rpc' = "pending"
  /\ inflight' = {Root}
  /\ listed' = {Root}
  /\ UNCHANGED <<tree, failing, output, completed, error>>
  /\ ReadFilesOnly

\* an fs.readdir resolves: the map callbacks run, the recursive calls start
\* their own fs.readdir, and the promises that have all they wait for resolve
ReaddirResolves ==
  /\ \E d \in inflight \ failing :
       /\ completed' = Append(completed, d)
       /\ inflight' = (inflight \ {d}) \cup Recursions(tree, d)
       /\ listed' = listed \cup Recursions(tree, d)
       /\ LET r == Resolution(tree, failing, Append(completed, d)) IN
          IF rpc = "pending" /\ r.ok
          THEN rpc' = "returned" /\ output' = r.files
          ELSE UNCHANGED <<rpc, output>>
  /\ UNCHANGED <<tree, failing, error>>
  /\ ReadFilesOnly

\* an fs.readdir rejects
ReaddirRejects ==
  /\ \E d \in inflight \cap failing :
       /\ completed' = Append(completed, d)
       /\ inflight' = inflight \ {d}
       /\ Rethrow(d)
  /\ UNCHANGED <<tree, failing, listed>>
  /\ ReadFilesOnly

NextTraverse ==
  \/ CallReadFiles
  \/ ReaddirResolves
  \/ ReaddirRejects

----------------------------------------------------------------------------
(* The specifications *)

IdleIndexFiles ==
  /\ files = <<>>
  /\ dryrunMode = FALSE
  /\ pc = "idle"
  /\ pos = 1
  /\ successfulCount = 0
  /\ content = None
  /\ embedding = None
  /\ summary = None
  /\ disk = [p \in Paths |-> NoFile]
  /\ remoteIndex = NoEntries
  /\ before = NoEntries
  /\ log = <<>>
  /\ runs = 0
  /\ prev = [files |-> {}, outcome |-> "none"]
  /\ inFlight = <<>>

IdleInitialize ==
  /\ indexName = "idx"
  /\ ipc = "idle"
  /\ existingIndexes = NoList
  /\ indexNames = Undefined
  /\ isReady = FALSE
  /\ indexes = NoIndexes
  /\ atStart = NoIndexes
  /\ calls = <<>>
  /\ creates = [n \in IndexNames |-> 0]
  /\ returned = [n \in IndexNames |-> 0]
  /\ failedOn = {}
  /\ invocations = 0

IdleReadFiles ==
  /\ tree = <<>>
  /\ failing = {}
  /\ rpc = "idle"
  /\ output = <<>>
  /\ listed = {}
  /\ inflight = {}
  /\ completed = <<>>
  /\ error = <<>>

InitIndexFiles ==
  /\ files = <<>>
  /\ dryrunMode = FALSE
  /\ pc = "idle"
  /\ pos = 1
  /\ successfulCount = 0
  /\ content = None
  /\ embedding = None
  /\ summary = None
  /\ disk \in Disks
  /\ remoteIndex = NoEntries
  /\ before = NoEntries
  /\ log = <<>>
  /\ runs = 0
  /\ prev = [files |-> {}, outcome |-> "none"]
  /\ inFlight = <<>>
  /\ IdleInitialize
  /\ IdleReadFiles

InitInitialize ==
  /\ IdleInitialize
  /\ IdleIndexFiles
  /\ IdleReadFiles

InitReadFiles ==
  /\ tree \in Trees
  /\ failing \in SUBSET Directories(tree)
  /\ Cardinality(failing) <= 1
  /\ rpc = "idle"
  /\ output = <<>>
  /\ listed = {}
  /\ inflight = {}
  /\ completed = <<>>
  /\ error = <<>>
  /\ IdleIndexFiles
  /\ IdleInitialize

InitTraverse ==
  /\ tree \in Trees
  /\ failing \in SUBSET Directories(tree)
  /\ rpc = "idle"
  /\ output = <<>>
  /\ listed = {}
  /\ inflight = {}
  /\ completed = <<>>
  /\ error = <<>>
  /\ IdleIndexFiles
  /\ IdleInitialize

NextIndexFiles ==
  \/ Invoke
  \/ GetIndex
  \/ ReadFile
  \/ Embed
  \/ Upsert
  \/ Summary

vars == <<idxVars, provVars, selVars, inFlight>>

SpecIndexFiles == InitIndexFiles /\ [][NextIndexFiles]_vars

SpecInitialize == InitInitialize /\ [][NextInitialize]_vars

\* every remote call settles and every timer fires; nothing makes the vector
\* store finish building an index
SpecInitializeFair ==
  /\ InitInitialize
  /\ [][NextInitialize]_vars
  /\ WF_vars(ListIndexes)
  /\ WF_vars(CreateIndex)
  /\ WF_vars(DescribeIndex)
  /\ WF_vars(Delay)

SpecReadFiles == InitReadFiles /\ [][NextReadFiles]_vars

\* a caller that uses one of the two functions that make remote calls
CallIndexFiles == invocations = 0 /\ Invoke

CallInitialize == runs = 0 /\ InvokeInitialize

InitCalls == InitIndexFiles

NextCalls ==
  \/ CallIndexFiles
  \/ GetIndex
  \/ ReadFile
  \/ Embed
  \/ Upsert
  \/ Summary
  \/ CallInitialize
  \/ ListIndexes
  \/ CreateIndex
  \/ DescribeIndex
  \/ Delay
  \/ BecomeReady

SpecCalls == InitCalls /\ [][NextCalls]_vars

SpecTraverse == InitTraverse /\ [][NextTraverse]_vars

----------------------------------------------------------------------------
(* Properties of indexFiles *)

CallsOf(op) == SelectSeq(log, LAMBDA e : e.op = op)

CallOk(op, j) == \E n \in 1..Len(log) : log[n].op = op /\ log[n].at = j /\ log[n].ok

CallFailed(j) == \E n \in 1..Len(log) : log[n].at = j /\ ~log[n].ok

\* the file at position j went through every step of its mode
Succeeded(j) ==
  IF dryrunMode
  THEN CallOk("read", j)
  ELSE CallOk("read", j) /\ CallOk("embed", j) /\ CallOk("upsert", j)

\* C1: whatever read, embed or upsert calls fail, the reads issued so far are
\* the files of the list in list order, one read per position; a run that
\* got its index handle is never aborted by a failing call, and when it ends
\* every position of the list has had its read.
C1_FaultIsolation ==
  LET reads == CallsOf("read") IN
  /\ Len(reads) <= Len(files)
  /\ \A j \in 1..Len(reads) : reads[j].at = j /\ reads[j].file = files[j]
  /\ (pc = "thrown" => log = <<>>)
  /\ (pc = "done" => Len(reads) = Len(files))

\* a finished run whose first file failed and whose later file was still read
C1_Witness ==
  /\ pc = "done"
  /\ Len(files) >= 2
  /\ CallFailed(1)
  /\ \E n \in 1..Len(log) : log[n].op = "read" /\ log[n].at = 2

\* C2: the summary reports as successfulCount the number of positions whose
\* read, embed and upsert all succeeded (in dry-run mode: whose read
\* succeeded), out of files.length; the counter never exceeds files.length.
C2_CountExact ==
  /\ successfulCount <= Len(files)
  /\ (pc = "done" =>
        /\ summary.total = Len(files)
        /\ summary.successfulCount =
             Cardinality({j \in 1..Len(files) : Succeeded(j)}))

\* the dry run of [f1, f2] with f1 readable and f2 missing: 1 out of 2
C2_Witness ==
  /\ pc = "done"
  /\ dryrunMode
  /\ Len(files) = 2
  /\ disk[files[1]] # NoFile
  /\ disk[files[2]] = NoFile
  /\ summary.successfulCount = 1
  /\ summary.total = 2

\* C3: a dry run issues no embed call and no upsert call, and the records of
\* the index stay what they were when the run started.
C3_DryRunNoSideEffects ==
  (dryrunMode /\ pc # "idle") =>
     /\ CallsOf("embed") = <<>>
     /\ CallsOf("upsert") = <<>>
     /\ remoteIndex = before

\* a finished dry run over a populated index, with a read that succeeded and
\* a read that failed
C3_Witness ==
  /\ dryrunMode
  /\ pc = "done"
  /\ DOMAIN remoteIndex # {}
  /\ \E j \in 1..Len(files) : CallOk("read", j)
  /\ \E j \in 1..Len(files) : CallFailed(j)

\* C4: once started, indexFiles never ends by throwing to its caller,
\* whichever collaborator operation fails (the index handle included).
C4_NeverThrows == pc # "thrown"

----------------------------------------------------------------------------
(* Properties of initializePineconeIndex *)

Issued(op) == \E n \in 1..Len(calls) : calls[n].op = op

IssuedWith(op, result) ==
  \E n \in 1..Len(calls) : calls[n].op = op /\ calls[n].result = result

LastCall == calls[Len(calls)]

\* the listing of this invocation holds indexName, with status ready
ListedReady ==
  /\ existingIndexes.defined
  /\ indexName \in DOMAIN existingIndexes.models
  /\ existingIndexes.models[indexName].ready

\* C5: when the listing holds indexName and its status is ready, the
\* invocation issues no create-index request and waits through no polling
\* delay; it returns after one list call and one describe call.
C5_NoCreateWhenReady ==
  ListedReady =>
    /\ ~Issued("create")
    /\ ~Issued("delay")
    /\ (ipc = "returned" => Len(calls) = 2)

\* an invocation that found its index listed and ready, and has returned
C5_Witness ==
  /\ ListedReady
  /\ ipc = "returned"
  /\ IssuedWith("describe", "ready")

\* C6: a normal return comes only after a describe call: the last call of the
\* invocation is a describe call for indexName that reported ready.
C6_ReturnsOnlyWhenReady ==
  ipc = "returned" =>
    /\ calls # <<>>
    /\ LastCall.op = "describe"
    /\ LastCall.name = indexName
    /\ LastCall.result = "ready"
    /\ isReady

\* an invocation that created the index, was told not ready, waited, and
\* returned
C6_Witness ==
  /\ ipc = "returned"
  /\ IssuedWith("create", "ok")
  /\ IssuedWith("describe", "notready")
  /\ Issued("delay")

\* C7: an error from list, create or describe ends the invocation at once: it
\* is the last call issued, the invocation has thrown, and an index created
\* before the error (like every index that was there) is still in the store.
C7_ErrorsAbort ==
  /\ \A n \in 1..Len(calls) :
       calls[n].result = "error" => (n = Len(calls) /\ ipc = "thrown")
  /\ (ipc = "thrown" => (calls # <<>> /\ LastCall.result = "error"))
  /\ (IssuedWith("create", "ok") =>
        /\ indexName \in DOMAIN indexes
        /\ indexes[indexName].dimension = Dimension)
  /\ DOMAIN atStart \subseteq DOMAIN indexes

\* an invocation that created the index and then threw on a describe error
C7_Witness ==
  /\ ipc = "thrown"
  /\ IssuedWith("create", "ok")
  /\ LastCall.op = "describe"
  /\ LastCall.result = "error"
  /\ indexName \in DOMAIN indexes
  /\ indexName \notin DOMAIN atStart

\* C8: as long as every invocation on a name has run to completion, at most
\* one create-index request was issued for it in total; an invocation that
\* follows a completed one on the same name issues no create request and
\* leaves the store's set of indexes and the index itself as it found them.
C8_Idempotent ==
  /\ \A n \in IndexNames : n \notin failedOn => creates[n] <= 1
  /\ (/\ ipc # "idle"
      /\ indexName \notin failedOn
      /\ returned[indexName] >= (IF ipc = "returned" THEN 2 ELSE 1))
     => /\ ~Issued("create")
        /\ DOMAIN indexes = DOMAIN atStart
        /\ indexName \in DOMAIN indexes
        /\ indexes[indexName] = atStart[indexName]

\* the second invocation on a name has returned, after one create in total
C8_Witness ==
  /\ ipc = "returned"
  /\ indexName \notin failedOn
  /\ returned[indexName] >= 2
  /\ creates[indexName] = 1

----------------------------------------------------------------------------
(* Properties of readFilesRecursively *)

\* the directories below the root that entry i lies in
RECURSIVE Ancestors(_, _)
Ancestors(t, i) ==
  IF t[i].parent = Root
  THEN {}
  ELSE {t[i].parent} \cup Ancestors(t, t[i].parent)

UnderDenied(t, i) == \E a \in Ancestors(t, i) : t[a].name \in ignoredDirs

Eligible(t) ==
  { i \in 1..Len(t) :
      /\ ~t[i].isDirectory
      /\ extname(t[i].name) \in allowedExtensions
      /\ ~UnderDenied(t, i) }

Reported == {output[k] : k \in 1..Len(output)}

\* C9: no entry that lies in a directory with a denied name, at any depth,
\* is in the output, whatever its extension; and fs.readdir is never called
\* on a directory with a denied name nor on anything inside one.
C9_DeniedPruned ==
  rpc # "idle" =>
    /\ \A i \in 1..Len(tree) :
         UnderDenied(tree, i) => PathOf(tree, i) \notin Reported
    /\ \A d \in listed \ {Root} :
         tree[d].name \notin ignoredDirs /\ ~UnderDenied(tree, d)

\* a traversal that returned, over a tree that holds a file with an allowed
\* extension two levels below a denied directory
C9_Witness ==
  /\ rpc = "returned"
  /\ \E i \in 1..Len(tree) :
       /\ ~tree[i].isDirectory
       /\ extname(tree[i].name) \in allowedExtensions
       /\ UnderDenied(tree, i)
       /\ tree[tree[i].parent].name \notin ignoredDirs

\* C10: the list a traversal returns holds exactly the paths of the files
\* below the root whose extension is allowed and that lie in no denied
\* directory, each of them once.
C10_ExactOutput ==
  rpc = "returned" =>
    /\ Reported = {PathOf(tree, i) : i \in Eligible(tree)}
    /\ Len(output) = Cardinality(Eligible(tree))

\* the root holds a.ts, b.png and the directory node_modules: exactly [a.ts]
C10_Witness ==
  /\ rpc = "returned"
  /\ output = << << <<"a", ".", "ts">> >> >>
  /\ \E i \in 1..Len(tree) :
       /\ tree[i].parent = Root
       /\ ~tree[i].isDirectory
       /\ tree[i].name = <<"b", ".", "png">>
  /\ \E i \in 1..Len(tree) :
       /\ tree[i].parent = Root
       /\ tree[i].isDirectory
       /\ tree[i].name = <<"node_modules">>

----------------------------------------------------------------------------
(* Properties of the traversal, one settled fs.readdir at a time *)

Failures == SelectSeq(completed, LAMBDA d : d \in failing)

\* C11: as soon as the listing of a directory the traversal reached has
\* failed, the invocation has rejected with the error of the first listing
\* that failed and has delivered no list, whatever listings succeeded before
\* or settle after; it resolves only when no listing failed; and once every
\* listing has settled it has rejected exactly when a listed directory fails.
C11_FailFast ==
  /\ (Failures # <<>> =>
        /\ rpc = "thrown"
        /\ output = <<>>
        /\ error = <<Head(Failures)>>)
  /\ (rpc = "returned" => (Failures = <<>> /\ error = <<>>))
  /\ ((rpc # "idle" /\ inflight = {}) =>
        (rpc = "thrown" <=> listed \cap failing # {}))

\* the listing of one subdirectory succeeded, then the listing of a sibling
\* failed, and the invocation has rejected
C11_Witness ==
  /\ rpc = "thrown"
  /\ Len(completed) >= 3
  /\ completed[2] \notin failing
  /\ completed[3] \in failing
  /\ tree[completed[2]].parent = tree[completed[3]].parent

----------------------------------------------------------------------------
(* Properties of indexFiles across runs *)

FileSet == {files[j] : j \in 1..Len(files)}

\* this run is a real run that follows a real run over the same set of files,
\* and it has ended
SecondRun(first) ==
  /\ pc = "done"
  /\ ~dryrunMode
  /\ prev.outcome = first
  /\ prev.files = FileSet

\* every embedding call of this run returned the vector the entry of its file
\* held when the run started
AnsweredAsBefore ==
  \A n \in 1..Len(log) :
    log[n].op = "embed" =>
      /\ log[n].file \in DOMAIN before
      /\ log[n].arg.output = before[log[n].file].values

\* C12: when a real run without failures is followed by a real run without
\* failures over the same set of files, with the files unchanged and the
\* embedder answering as it did, the second run ends with the vector store
\* holding what it held after the first: one entry per file, with the path
\* as id, and every entry equal to the one of the first run.
C12_Idempotent ==
  (SecondRun("clean") /\ Outcome = "clean" /\ AnsweredAsBefore) =>
    /\ remoteIndex = before
    /\ \A f \in FileSet : f \in DOMAIN remoteIndex /\ remoteIndex[f].id = f
    /\ \A a, b \in DOMAIN remoteIndex :
         remoteIndex[a].metadata.path = remoteIndex[b].metadata.path => a = b

\* two clean runs over the same two files, the second with the same answers
C12_Witness ==
  /\ SecondRun("clean")
  /\ Outcome = "clean"
  /\ AnsweredAsBefore
  /\ Cardinality(FileSet) = 2
  /\ Len(CallsOf("upsert")) = 2
  /\ DOMAIN remoteIndex = FileSet

----------------------------------------------------------------------------
(* Properties of the remote calls *)

\* the remote call the running invocation is waiting for, if any
Awaited ==
  IF pc \in {"embed", "upsert"} THEN <<[op |-> pc, at |-> pos]>>
  ELSE IF ipc \in {"list", "create", "describe"} THEN <<[op |-> ipc, at |-> 0]>>
  ELSE <<>>

\* every call issued for position j has settled, and so has the call that
\* follows a success
SettledAt(j) ==
  \A n \in 1..Len(log) :
    log[n].at = j =>
      /\ (log[n].op = "read" /\ log[n].ok) =>
            \E m \in (n+1)..Len(log) : log[m].op = "embed" /\ log[m].at = j
      /\ (log[n].op = "embed" /\ log[n].arg.output \in Vectors) =>
            \E m \in (n+1)..Len(log) : log[m].op = "upsert" /\ log[m].at = j

\* C13: at every moment at most one of the list, create, describe, embed and
\* upsert calls is in flight, and it is the call the running invocation is
\* awaiting; while a call for the file at position k is in flight, every
\* embed and upsert call for the earlier positions has completed or failed.
C13_OneAtATime ==
  /\ Len(inFlight) <= 1
  /\ inFlight = Awaited
  /\ \A n \in 1..Len(inFlight) :
       inFlight[n].op \in {"embed", "upsert"} =>
         \A j \in 1..(inFlight[n].at - 1) : ~dryrunMode => SettledAt(j)

\* the embed call of the second file is in flight after the upsert of the
\* first file has completed
C13_Witness ==
  /\ inFlight = <<[op |-> "embed", at |-> 2]>>
  /\ CallOk("upsert", 1)

----------------------------------------------------------------------------
(* Properties of the readiness wait *)

Running == ipc \in {"list", "create", "describe", "delay"}

Ended == ipc \in {"returned", "thrown"}

CurrentReady == indexName \in DOMAIN indexes /\ indexes[indexName].ready

\* C14: the wait has no deadline.  An invocation returns only with its index
\* ready, and it leaves the delay only to describe the index again, never to
\* return or throw.  Once the index is ready the invocation ends, by
\* returning or by the error of a call; while it is not, every describe call
\* is answered and followed by the delay, and every delay by another
\* describe call (followed here up to MaxPolls delays).
C14_NoDeadline ==
  /\ [](ipc = "returned" => CurrentReady)
  /\ [][ipc = "delay" => ipc' \in {"delay", "describe"}]_vars
  /\ (Running /\ CurrentReady /\ (ipc = "delay" => Delays < MaxPolls)) ~> Ended
  /\ (ipc = "describe") ~> (ipc \in {"delay", "returned", "thrown"})
  /\ (ipc = "delay" /\ Delays < MaxPolls) ~> (ipc = "describe")

\* the index is still not ready after MaxPolls delays, and the invocation is
\* in its next delay
C14_Witness ==
  /\ ipc = "delay"
  /\ Delays = MaxPolls
  /\ ~CurrentReady

----------------------------------------------------------------------------
(* Properties of the calls of one run of indexFiles *)

Attempts(op, j) ==
  Cardinality({n \in 1..Len(log) : log[n].op = op /\ log[n].at = j})
  + Cardinality({n \in 1..Len(inFlight) :
                   inFlight[n].op = op /\ inFlight[n].at = j})

\* C15: within one run every element of the list gets at most one read, one
\* embed call and one upsert call, and a call that failed is the last call
\* made for its element.
C15_NoRetries ==
  /\ \A j \in 1..Len(files) :
       \A op \in {"read", "embed", "upsert"} : Attempts(op, j) <= 1
  /\ \A n \in 1..Len(log) :
       ~log[n].ok =>
         /\ \A m \in (n+1)..Len(log) : log[m].at # log[n].at
         /\ \A m \in 1..Len(inFlight) :
              pc \in {"embed", "upsert"} => inFlight[m].at # log[n].at

\* a finished run in which an embed call and an upsert call failed
C15_Witness ==
  /\ pc = "done"
  /\ \E n \in 1..Len(log) : log[n].op = "embed" /\ ~log[n].ok
  /\ \E n \in 1..Len(log) : log[n].op = "upsert" /\ ~log[n].ok

\* the call the file of log entry n went through just before it
Previous(n, op) ==
  /\ n > 1
  /\ log[n-1].op = op
  /\ log[n-1].at = log[n].at

\* C16: the read of a file is the first call made for it; an embed call is
\* made only right after the successful read of the same file, and an upsert
\* only right after an embed call for the same file that returned a vector,
\* which is the vector it carries; so an entry that a run wrote or changed
\* carries a vector the embedder returned for that file in that run.
C16_StepOrder ==
  /\ \A n \in 1..Len(log) :
       /\ log[n].op = "read" =>
            \A m \in 1..(n-1) : log[m].at # log[n].at
       /\ log[n].op = "embed" =>
            /\ ~dryrunMode
            /\ Previous(n, "read")
            /\ log[n-1].ok
       /\ log[n].op = "upsert" =>
            /\ Previous(n, "embed")
            /\ log[n-1].ok
            /\ log[n-1].arg.output \in Vectors
            /\ \A k \in 1..Len(log[n].arg) :
                 log[n].arg[k].values = log[n-1].arg.output
  /\ \A n \in 1..Len(inFlight) :
       /\ log # <<>>
       /\ log[Len(log)].at = inFlight[n].at
       /\ log[Len(log)].ok
       /\ inFlight[n].op = "embed" => log[Len(log)].op = "read"
       /\ inFlight[n].op = "upsert" =>
            log[Len(log)].op = "embed" /\ log[Len(log)].arg.output \in Vectors
  /\ \A id \in DOMAIN remoteIndex :
       (id \notin DOMAIN before \/ remoteIndex[id] # before[id]) =>
         \E n \in 2..Len(log) :
           /\ log[n].op = "upsert" /\ log[n].ok /\ log[n].file = id
           /\ log[n-1].op = "embed"
           /\ remoteIndex[id].values = log[n-1].arg.output

\* a finished real run: the read of the first file failed and nothing else
\* was called for it, the embed call of the second failed and no upsert
\* followed
C16_Witness ==
  /\ pc = "done"
  /\ ~dryrunMode
  /\ Len(log) = 3
  /\ log[1].op = "read" /\ ~log[1].ok
  /\ log[2].op = "read" /\ log[2].ok
  /\ log[3].op = "embed" /\ ~log[3].ok
  /\ remoteIndex = before

\* the content the read of log entry n's file returned in this run
ContentRead(n) ==
  LET m == CHOOSE m \in 1..Len(log) :
             log[m].op = "read" /\ log[m].at = log[n].at
  IN  log[m].arg

\* C17: every upsert carries exactly one entry; its id is the path of the
\* file being processed, its metadata.path is that id, and its metadata.text
\* is 'File path: ', the path, two newlines and the content read for the
\* file.  Whatever runs came before, every entry of the index is stored
\* under its own path, so the index holds at most one entry per path.
C17_OneEntryPerPath ==
  /\ \A n \in 1..Len(log) :
       log[n].op = "upsert" =>
         /\ Len(log[n].arg) = 1
         /\ log[n].arg[1].id = files[log[n].at]
         /\ log[n].arg[1].metadata.path = log[n].arg[1].id
         /\ log[n].arg[1].metadata.text =
              <<"File path: ", files[log[n].at], "\n\n", ContentRead(n)>>
         /\ ContentRead(n) = disk[files[log[n].at]]
  /\ \A id \in DOMAIN remoteIndex :
       /\ id \in Paths
       /\ remoteIndex[id].id = id
       /\ remoteIndex[id].metadata.path = id
  /\ \A a, b \in DOMAIN remoteIndex :
       remoteIndex[a].metadata.path = remoteIndex[b].metadata.path => a = b

\* a second run over a list that names the same file twice, after a run that
\* wrote its entry: both upserts succeeded and the index holds one entry
C17_Witness ==
  /\ pc = "done"
  /\ runs = 2
  /\ Len(files) = 2
  /\ files[1] = files[2]
  /\ files[1] \in DOMAIN before
  /\ CallOk("upsert", 1)
  /\ CallOk("upsert", 2)
  /\ Cardinality(DOMAIN remoteIndex) = 1

\* the run made a fresh attempt at every position of its list: a read, and
\* after every success the next step
AttemptedAll ==
  \A j \in 1..Len(files) :
    /\ \E n \in 1..Len(log) : log[n].op = "read" /\ log[n].at = j
    /\ SettledAt(j)

\* if every call of the run succeeded, every file of the list has its entry
Converged ==
  Outcome = "clean" =>
    \A f \in FileSet : f \in DOMAIN remoteIndex /\ remoteIndex[f].id = f

\* the embed calls this run made for the file returned the vector its entry
\* held when the run started
SameVector(id) ==
  \A n \in 1..Len(log) :
    (log[n].op = "embed" /\ log[n].file = id /\ log[n].arg.output \in Vectors)
      => log[n].arg.output = before[id].values

\* C18 as stated: a real run over the files of a real run that ended with
\* failures attempts every file again, leaves every entry that was there in
\* place with identical values, and if all its calls succeed ends with an
\* entry for every file of the list.
C18_AsStated ==
  SecondRun("partial") =>
    /\ AttemptedAll
    /\ \A id \in DOMAIN before :
         id \in DOMAIN remoteIndex /\ remoteIndex[id] = before[id]
    /\ Converged

\* C18, amended: as above, but an entry that was there is left identical
\* when the embedder returned for its file the vector it returned before
\* (the files being unchanged); it is never removed, and the index never
\* holds two entries for one path.
C18_Convergent ==
  SecondRun("partial") =>
    /\ AttemptedAll
    /\ \A id \in DOMAIN before :
         /\ id \in DOMAIN remoteIndex
         /\ remoteIndex[id].id = id
         /\ SameVector(id) => remoteIndex[id] = before[id]
    /\ Converged

\* after a run that wrote the entry of one file and failed on the other, a
\* run in which every call succeeded: the first entry was overwritten with
\* an identical one and the second was created
C18_Witness ==
  /\ SecondRun("partial")
  /\ Outcome = "clean"
  /\ \E f, g \in FileSet :
       /\ f \in DOMAIN before
       /\ \E n \in 1..Len(log) :
            log[n].op = "upsert" /\ log[n].ok /\ log[n].file = f
       /\ remoteIndex[f] = before[f]
       /\ g \notin DOMAIN before
       /\ g \in DOMAIN remoteIndex

----------------------------------------------------------------------------
(* Properties of the order of the files *)

\* the entry numbers from the root down to entry i
RECURSIVE Chain(_, _)
Chain(t, i) ==
  IF t[i].parent = Root THEN <<i>> ELSE Append(Chain(t, t[i].parent), i)

\* a comes before b in a depth-first enumeration: where the two chains part,
\* a's entry is listed before b's
DepthFirstBefore(a, b) ==
  \E k \in 1..Len(a) :
    /\ k <= Len(b)
    /\ a[k] < b[k]
    /\ \A m \in 1..(k-1) : a[m] = b[m]

\* the entry whose path is p
EntryAt(t, p) == CHOOSE i \in 1..Len(t) : PathOf(t, i) = p

----------------------------------------------------------------------------
(* Properties of the calls of one invocation of initializePineconeIndex *)

\* the listing the list call answered with lacks indexName, or the response
\* held no list
ListingLacksName ==
  /\ calls # <<>>
  /\ \/ calls[1].result = "nolist"
     \/ calls[1].result = "ok" /\ indexName \notin DOMAIN atStart

\* C20: the first call of an invocation is its only list call; a create
\* request is issued when and only when the listing lacks the name or the
\* response holds no list: as the second call, so once and before every
\* describe call, and the index it creates has dimension 1536; a delay
\* follows a describe call that reported not-ready, and only such a call,
\* and is followed by a describe call; the describe call that reported
\* ready is the last call.
C20_Protocol ==
  /\ calls # <<>> => calls[1].op = "list"
  /\ \A n \in 2..Len(calls) : calls[n].op # "list"
  /\ \A n \in 1..Len(calls) : calls[n].op = "create" => n = 2 /\ ListingLacksName
  /\ ListingLacksName =>
       IF Len(calls) = 1 THEN ipc = "create" ELSE calls[2].op = "create"
  /\ \A n \in 1..Len(calls) :
       (calls[n].op = "create" /\ calls[n].result = "ok") =>
         /\ indexName \in DOMAIN indexes
         /\ indexes[indexName].dimension = 1536
  /\ \A n \in 1..Len(calls) :
       /\ calls[n].op = "delay" =>
            /\ n > 1
            /\ calls[n-1].op = "describe"
            /\ calls[n-1].result = "notready"
            /\ IF n = Len(calls)
               THEN ipc = "describe"
               ELSE calls[n+1].op = "describe"
       /\ (calls[n].op = "describe" /\ calls[n].result = "notready") =>
            IF n = Len(calls) THEN ipc = "delay" ELSE calls[n+1].op = "delay"
       /\ (calls[n].op = "describe" /\ calls[n].result = "ready") =>
            n = Len(calls) /\ ipc = "returned"

\* an invocation that listed, created, described twice with one delay in
\* between, and returned
C20_Witness ==
  /\ ipc = "returned"
  /\ Len(calls) = 5
  /\ calls[2].op = "create"
  /\ calls[3].result = "notready"
  /\ calls[4].op = "delay"
  /\ calls[5].result = "ready"

====
